---- MODULE Spec2Model ----
(***************************************************************************)
(* Writing3D / pycave: the schema-validated feature record (features.py),  *)
(* the validators (validators.py) and the action variants with their XML   *)
(* conversions (actions.py).                                               *)
(*                                                                         *)
(* Python values are tagged tuples <<type, payload>>, so that values of    *)
(* different Python types can be stored in one record and compared.        *)
(* An exception raised by an operation is the string err; "none" is a      *)
(* normal return.                                                          *)
(***************************************************************************)
EXTENDS Integers, Sequences, FiniteSets, TLC

VARIABLES cls, alive, rec, ui_order, call, err, ret, parent, out

vars == <<cls, alive, rec, ui_order, call, err, ret, parent, out>>

----------------------------------------------------------------------------
(* Bounds of the model                                                     *)

\* longest list of pairs handed to update() or to the constructor
MaxPairs == 2
\* most keys a caller stores in the one record under test
MaxKeys == 2
\* largest number a caller uses as a numeric value
MaxNum == 2

----------------------------------------------------------------------------
(* Python values                                                           *)

None == <<"none">>
VStr(s) == <<"str", s>>
VInt(n) == <<"int", n>>
VFlt(n) == <<"float", n>>
VBool(b) == <<"bool", b>>
VTup(s) == <<"tuple", s>>
VPlc(i) == <<"placement", i>>
\* a class object (int, str, object, type), by its name
VType(t) == <<"type", t>>

Ty(v) == v[1]

\* the number a numeric Python value stands for (bool is a subclass of int)
NumOf(v) == IF Ty(v) = "bool" THEN (IF v[2] THEN 1 ELSE 0) ELSE v[2]

IsNumber(v) == Ty(v) \in {"int", "float", "bool"}

\* Python's ==
PyEq(a, b) ==
    IF IsNumber(a) /\ IsNumber(b) THEN NumOf(a) = NumOf(b)
    ELSE Ty(a) = Ty(b) /\ a = b

\* Python's truth value of an object
Truthy(v) ==
    CASE Ty(v) = "none" -> FALSE
      [] Ty(v) = "bool" -> v[2]
      [] Ty(v) \in {"int", "float"} -> v[2] # 0
      [] Ty(v) = "str" -> v[2] # ""
      [] Ty(v) = "tuple" -> Len(v[2]) > 0
      [] OTHER -> TRUE

\* the texts Python's float() parses, within the numbers of the model
NumRange == 0..MaxNum

IntText(s) == \E n \in NumRange : s = ToString(n)

FloatText(s) == \E n \in NumRange : s = ToString(n) \o ".0"

ParseNum(s) ==
    IF IntText(s) THEN CHOOSE n \in NumRange : s = ToString(n)
    ELSE CHOOSE n \in NumRange : s = ToString(n) \o ".0"

\* float(value): [err, val]
PyFloat(v) ==
    CASE IsNumber(v) -> [err |-> "none", val |-> VFlt(NumOf(v))]
      [] Ty(v) = "str" ->
            IF IntText(v[2]) \/ FloatText(v[2])
            THEN [err |-> "none", val |-> VFlt(ParseNum(v[2]))]
            ELSE [err |-> "ValueError", val |-> None]
      [] OTHER -> [err |-> "TypeError", val |-> None]

\* str(value) of a number or a string
PyStr(v) ==
    CASE Ty(v) = "int" -> VStr(ToString(v[2]))
      [] Ty(v) = "float" -> VStr(ToString(v[2]) \o ".0")
      [] Ty(v) = "bool" -> VStr(IF v[2] THEN "True" ELSE "False")
      [] Ty(v) = "none" -> VStr("None")
      [] OTHER -> v

----------------------------------------------------------------------------
(* validators.py                                                           *)

AlwaysValid == [kind |-> "AlwaysValid", options |-> {}, required_length |-> 0]
IsNumeric == [kind |-> "IsNumeric", options |-> {}, required_length |-> 0]
IsNumericIterable(n) ==
    [kind |-> "IsNumericIterable", options |-> {}, required_length |-> n]
OptionListValidator(opts) ==
    [kind |-> "OptionList", options |-> opts, required_length |-> 0]
\* CheckType(correct_type): the name of the class is kept in options
CheckType(correct_type) ==
    [kind |-> "CheckType", options |-> {correct_type}, required_length |-> 0]

\* required_length=None
NoLength == -1

\* OptionListValidator.__call__: value in self.valid_options
OptionListCall(validator, value) ==
    IF Ty(value) = "str" /\ value[2] \in validator.options
    THEN "true" ELSE "false"

\* IsNumeric.__call__: float(value) inside try; only TypeError is caught
IsNumericCall(value) ==
    LET f == PyFloat(value) IN
    CASE f.err = "none" -> "true"
      [] f.err = "TypeError" -> "false"
      [] OTHER -> f.err

\* IsNumericIterable.__call__: the loop body evaluates IsNumeric(value),
\* a constructor call with one argument too many for IsNumeric.__init__(self);
\* the TypeError it raises is caught by the same except that reports a
\* non-iterable. An empty iterable reaches the length test.
IsNumericIterableCall(validator, iterable) ==
    IF Ty(iterable) \notin {"tuple", "str"} THEN "false"
    ELSE IF (IF Ty(iterable) = "tuple" THEN Len(iterable[2]) > 0
             ELSE iterable[2] # "")
         THEN "false"
         ELSE IF validator.required_length \in {NoLength, 0}
              THEN "true" ELSE "false"

\* CheckType.__call__: isinstance(self.correct_type, value), the arguments
\* the wrong way round: a value that is not a class raises TypeError, and a
\* value that is a class is answered by whether the class correct_type is
\* an instance of it, which it is of type and of object only
CheckTypeCall(validator, value) ==
    IF Ty(value) # "type" THEN "TypeError"
    ELSE IF value[2] \in {"type", "object"} THEN "true" ELSE "false"

\* validator(value): "true", "false", or the name of the exception it raises
ValidatorCall(validator, value) ==
    CASE validator.kind = "AlwaysValid" -> "true"
      [] validator.kind = "IsNumeric" -> IsNumericCall(value)
      [] validator.kind = "IsNumericIterable" ->
            IsNumericIterableCall(validator, value)
      [] validator.kind = "OptionList" -> OptionListCall(validator, value)
      [] validator.kind = "CheckType" -> CheckTypeCall(validator, value)

----------------------------------------------------------------------------
(* actions.py: the schema of every action variant                          *)

Classes ==
    {"ObjectAction", "GroupAction", "TimelineAction", "SoundAction",
     "EventTriggerAction", "MoveCaveAction", "CaveResetAction"}

link_options == {"Enable", "Disable", "Activate", "Activate if enabled"}

timeline_options == {"Start", "Stop", "Continue", "Start if not started"}

\* the optional attributes ObjectAction and GroupAction share
transition_validators ==
    ("duration" :> IsNumeric) @@
    ("visible" :> AlwaysValid) @@
    ("placement" :> AlwaysValid) @@
    ("move_relative" :> AlwaysValid) @@
    ("color" :> IsNumericIterable(3)) @@
    ("scale" :> IsNumeric) @@
    ("sound_change" :> OptionListValidator({"Play Sound", "Stop Sound"})) @@
    ("link_change" :> OptionListValidator(link_options))

\* <class>.argument_validators; IsNumeric(min_value=0) is the IsNumeric of
\* validators.py, which has no min_value
argument_validators ==
    [c \in Classes |->
    CASE c = "ObjectAction" ->
            ("object_name" :> AlwaysValid) @@ transition_validators
      [] c = "GroupAction" ->
            ("group_name" :> AlwaysValid) @@
            ("choose_random" :> AlwaysValid) @@ transition_validators
      [] c = "TimelineAction" ->
            ("timeline_name" :> AlwaysValid) @@
            ("change" :> OptionListValidator(timeline_options))
      [] c = "SoundAction" ->
            ("sound_name" :> AlwaysValid) @@
            ("change" :> OptionListValidator({"Start", "Stop"}))
      [] c = "EventTriggerAction" ->
            ("trigger_name" :> AlwaysValid) @@ ("enable" :> AlwaysValid)
      [] c = "MoveCaveAction" ->
            ("relative" :> AlwaysValid) @@
            ("duration" :> IsNumeric) @@
            ("placement" :> AlwaysValid)
      [] OTHER -> <<>>]

\* <class>.default_arguments
default_arguments ==
    [c \in Classes |->
    CASE c = "ObjectAction" -> ("duration" :> VInt(1))
      [] c = "GroupAction" ->
            ("duration" :> VInt(1)) @@ ("choose_random" :> VBool(FALSE))
      [] c = "SoundAction" -> ("change" :> VStr("Start"))
      [] c = "MoveCaveAction" -> ("duration" :> VInt(0))
      [] OTHER -> <<>>]

\* ObjectAction.link_xml_tags, GroupAction.link_xml_tags
link_xml_tags ==
    ("Enable" :> "link_on") @@ ("Disable" :> "link_off") @@
    ("Activate" :> "activate") @@ ("Activate if enabled" :> "activate_if_on")

\* TimelineAction.change_xml_tags
change_xml_tags ==
    ("Start" :> "start") @@ ("Stop" :> "stop") @@ ("Continue" :> "continue") @@
    ("Start if not started" :> "start_if_not_started")

----------------------------------------------------------------------------
(* features.py: the record                                                 *)

EmptyRec == <<>>

Store(r, key, value) == (key :> value) @@ r

\* __setitem__ after the validator has answered v: the item is stored, or
\* InvalidArgument or the validator's own exception is raised
StoreIf(v, r, key, value) ==
    CASE v = "true" -> [err |-> "none", rec |-> Store(r, key, value)]
      [] v = "false" -> [err |-> "InvalidArgument", rec |-> r]
      [] OTHER -> [err |-> v, rec |-> r]

\* __setitem__ without the test of the key against argument_validators
SetItem_NoSchemaTest(c, r, key, value) ==
    IF key \notin DOMAIN argument_validators[c]
    THEN [err |-> "none", rec |-> Store(r, key, value)]
    ELSE StoreIf(ValidatorCall(argument_validators[c][key], value), r, key, value)

\* __setitem__ that stores before it asks the validator
SetItem_StoresFirst(c, r, key, value) ==
    IF key \notin DOMAIN argument_validators[c]
    THEN [err |-> "InvalidArgument", rec |-> r]
    ELSE LET v == ValidatorCall(argument_validators[c][key], value) IN
         CASE v = "true" -> [err |-> "none", rec |-> Store(r, key, value)]
           [] v = "false" ->
                [err |-> "InvalidArgument", rec |-> Store(r, key, value)]
           [] OTHER -> [err |-> v, rec |-> r]

\* W3DFeature.__setitem__: [err, rec]
SetItem(c, r, key, value) ==
    IF key \notin DOMAIN argument_validators[c]
    THEN [err |-> "InvalidArgument", rec |-> r]
    ELSE StoreIf(ValidatorCall(argument_validators[c][key], value), r, key, value)

RECURSIVE Update(_, _, _)

\* update(pairs) on the record the step s left, unless s raised
UpdateThen(c, s, pairs) ==
    IF s.err # "none" THEN s ELSE Update(c, s.rec, pairs)

\* update as dict.update, which stores every pair without __setitem__
RECURSIVE Update_AsDict(_, _, _)
Update_AsDict(c, r, pairs) ==
    IF pairs = <<>> THEN [err |-> "none", rec |-> r]
    ELSE Update_AsDict(c, Store(r, pairs[1][1], pairs[1][2]), Tail(pairs))

\* W3DFeature.update: __setitem__ for every pair, in order, until one raises
Update(c, r, pairs) ==
    IF pairs = <<>> THEN [err |-> "none", rec |-> r]
    ELSE UpdateThen(c, SetItem(c, r, pairs[1][1], pairs[1][2]), Tail(pairs))

\* __getitem__ of a dict without __missing__
GetItem_NoMissing(c, r, key) ==
    IF key \in DOMAIN r THEN [err |-> "none", val |-> r[key]]
    ELSE [err |-> "KeyError", val |-> None]

\* W3DFeature.__getitem__ with __missing__: [err, val]
GetItem(c, r, key) ==
    IF key \in DOMAIN r THEN [err |-> "none", val |-> r[key]]
    ELSE IF key \in DOMAIN default_arguments[c]
         THEN [err |-> "none", val |-> default_arguments[c][key]]
         ELSE [err |-> "KeyError", val |-> None]

\* __missing__ as collections.defaultdict has it: the default is stored
Missing_StoresDefault(c, r, key) ==
    IF key \notin DOMAIN r /\ key \in DOMAIN default_arguments[c]
    THEN Store(r, key, default_arguments[c][key])
    ELSE r

\* the dict after __getitem__: __missing__ returns default_arguments[key]
\* and stores nothing
Missing__(c, r, key) == r

\* is_default that only asks whether a default exists
is_default_OnlyDefaults(c, r, key) == key \in DOMAIN default_arguments[c]

\* W3DFeature.is_default
is_default(c, r, key) ==
    key \notin DOMAIN r /\ key \in DOMAIN default_arguments[c]

\* every attribute name of the model, in sorted() order
SortedNames ==
    <<"change", "choose_random", "color", "duration", "enable", "group_name",
      "link_change", "move_relative", "object_name", "placement", "relative",
      "scale", "sound_change", "sound_name", "timeline_name", "trigger_name",
      "visible">>

\* sorted(self.argument_validators.keys())
SortedKeys ==
    [c \in Classes |->
        LET Keep(k) == k \in DOMAIN argument_validators[c]
        IN SelectSeq(SortedNames, Keep)]

\* self.ui_order = sorted(...), once both updates u have returned; no
\* object is made when one of them raised
ui_orderStage(c, u) ==
    IF u.err # "none" THEN [err |-> u.err, rec |-> EmptyRec, ui_order |-> <<>>]
    ELSE [err |-> "none", rec |-> u.rec, ui_order |-> SortedKeys[c]]

\* W3DFeature.__init__: [err, rec, ui_order]
Init__(c, args, kwargs) ==
    ui_orderStage(c, UpdateThen(c, Update(c, EmptyRec, args), kwargs))

----------------------------------------------------------------------------
(* xml.etree.ElementTree elements, as actions.py uses them                 *)

Node(tag, attrib, text, children) ==
    [tag |-> tag, attrib |-> attrib, text |-> text, children |-> children]

NoNode == Node("", <<>>, None, <<>>)

\* ET.SubElement(parent, ...): the new element is appended to the parent
SubElement(p, child) == [p EXCEPT !.children = Append(@, child)]

\* Element.find(tag): the index of the first child with the tag, 0 for None
Find(n, tag) ==
    IF \E i \in 1..Len(n.children) : n.children[i].tag = tag
    THEN CHOOSE i \in 1..Len(n.children) :
            /\ n.children[i].tag = tag
            /\ \A j \in 1..(i - 1) : n.children[j].tag # tag
    ELSE 0

\* xml_tools.bool2text
bool2text(v) == VStr(IF Truthy(v) THEN "true" ELSE "false")

\* xml_tools.text2bool
text2bool(t) == VBool(t = VStr("true"))

\* "{},{},{}".format(*color): [err, val]
FormatColor(color) ==
    IF Ty(color) # "tuple" THEN [err |-> "TypeError", val |-> None]
    ELSE IF Len(color[2]) < 3 THEN [err |-> "IndexError", val |-> None]
    ELSE [err |-> "none",
          val |-> VStr(PyStr(color[2][1])[2] \o "," \o PyStr(color[2][2])[2]
                       \o "," \o PyStr(color[2][3])[2])]

IntTuples == {VTup(<<VInt(a), VInt(b), VInt(c)>>) : a, b, c \in NumRange}

\* xml_tools.text2tuple(text, evaluator=int): [err, val]
text2tuple(t) ==
    IF \E tp \in IntTuples : FormatColor(tp).val = t
    THEN [err |-> "none", val |-> CHOOSE tp \in IntTuples : FormatColor(tp).val = t]
    ELSE [err |-> "InvalidArgument", val |-> None]

\* CavePlacement.toXML(node): [err, node]
PlacementToXML(v, n) ==
    IF Ty(v) # "placement" THEN [err |-> "AttributeError", node |-> n]
    ELSE [err |-> "none", node |-> SubElement(n, Node("Placement", <<>>, v, <<>>))]

\* CavePlacement.fromXML(place_root)
PlacementFromXML(n) == n.text

----------------------------------------------------------------------------
(* actions.py: toXML                                                       *)
(* A toXML result is [err, parent]: the exception raised ("none" for a     *)
(* normal return) and parent_root as the call leaves it.                   *)

\* the children of Transition are built in stages b = [err, children];
\* a stage after a raised exception does nothing
VisibleStage(c, r, b) ==
    IF b.err # "none" \/ "visible" \notin DOMAIN r THEN b
    ELSE [b EXCEPT !.children =
            Append(@, Node("Visible", <<>>, bool2text(r["visible"]), <<>>))]

MoveStage(c, r, b) ==
    IF b.err # "none" \/ "placement" \notin DOMAIN r THEN b
    ELSE LET mr == GetItem(c, r, "move_relative") IN
         IF mr.err # "none" THEN [b EXCEPT !.err = mr.err]
         ELSE LET tag == IF Truthy(mr.val) THEN "MoveRel" ELSE "Movement"
                  pl == PlacementToXML(r["placement"], Node(tag, <<>>, None, <<>>))
              IN [err |-> pl.err, children |-> Append(b.children, pl.node)]

ColorStage(c, r, b) ==
    IF b.err # "none" \/ "color" \notin DOMAIN r THEN b
    ELSE LET f == FormatColor(r["color"]) IN
         [err |-> f.err,
          children |-> Append(b.children, Node("Color", <<>>, f.val, <<>>))]

ScaleStage(c, r, b) ==
    IF b.err # "none" \/ "scale" \notin DOMAIN r THEN b
    ELSE [b EXCEPT !.children =
            Append(@, Node("Scale", <<>>, PyStr(r["scale"]), <<>>))]

\* attrib={"action", self["sound_change"]} is a set, which SubElement refuses
SoundStage(c, r, b) ==
    IF b.err # "none" \/ "sound_change" \notin DOMAIN r THEN b
    ELSE [b EXCEPT !.err = "TypeError"]

\* ObjectAction: the child tag is looked up in link_xml_tags
ObjectLinkStage(c, r, b) ==
    IF b.err # "none" \/ "link_change" \notin DOMAIN r THEN b
    ELSE LET lc == r["link_change"][2] IN
         IF lc \notin DOMAIN link_xml_tags
         THEN [err |-> "KeyError",
               children |-> Append(b.children, Node("LinkChange", <<>>, None, <<>>))]
         ELSE [b EXCEPT !.children =
                 Append(@, Node("LinkChange", <<>>, None,
                                <<Node(link_xml_tags[lc], <<>>, None, <<>>)>>))]

\* GroupAction: the child tag is chosen by an if/elif chain with no else
GroupLinkStage(c, r, b) ==
    IF b.err # "none" \/ "link_change" \notin DOMAIN r THEN b
    ELSE LET lc == r["link_change"]
             kids == CASE lc = VStr("Enable") -> <<Node("link_on", <<>>, None, <<>>)>>
                       [] lc = VStr("Disable") -> <<Node("link_off", <<>>, None, <<>>)>>
                       [] lc = VStr("Activate") -> <<Node("activate", <<>>, None, <<>>)>>
                       [] lc = VStr("Activate if enabled") ->
                            <<Node("activate_if_on", <<>>, None, <<>>)>>
                       [] OTHER -> <<>>
         IN [b EXCEPT !.children = Append(@, Node("LinkChange", <<>>, None, kids))]

TransitionStages(c, r) ==
    SoundStage(c, r, ScaleStage(c, r, ColorStage(c, r, MoveStage(c, r,
        VisibleStage(c, r, [err |-> "none", children |-> <<>>])))))

ObjectActionToXML(r, p) ==
    LET c == "ObjectAction"
        name == GetItem(c, r, "object_name")
    IN IF name.err # "none" THEN [err |-> name.err, parent |-> p]
       ELSE LET b == ObjectLinkStage(c, r, TransitionStages(c, r))
                trans == Node("Transition",
                              "duration" :> GetItem(c, r, "duration").val,
                              None, b.children)
            IN [err |-> b.err,
                parent |-> SubElement(p,
                    Node("ObjectChange", "name" :> name.val, None, <<trans>>))]

GroupActionToXML(r, p) ==
    LET c == "GroupAction"
        name == GetItem(c, r, "group_name")
    IN IF name.err # "none" THEN [err |-> name.err, parent |-> p]
       ELSE LET b == GroupLinkStage(c, r, TransitionStages(c, r))
                trans == Node("Transition",
                              "duration" :> GetItem(c, r, "duration").val,
                              None, b.children)
                attrib == IF is_default(c, r, "choose_random")
                          THEN "name" :> name.val
                          ELSE ("name" :> name.val) @@
                               ("random" :> bool2text(r["choose_random"]))
            IN [err |-> b.err,
                parent |-> SubElement(p, Node("GroupRef", attrib, None, <<trans>>))]

TimelineActionToXML(r, p) ==
    LET c == "TimelineAction"
        name == GetItem(c, r, "timeline_name")
        change == GetItem(c, r, "change")
    IN IF name.err # "none" THEN [err |-> "ConsistencyError", parent |-> p]
       ELSE IF change.err # "none" \/ change.val[2] \notin DOMAIN change_xml_tags
            THEN [err |-> "ConsistencyError",
                  parent |-> SubElement(p,
                      Node("TimerChange", "name" :> name.val, None, <<>>))]
            ELSE [err |-> "none",
                  parent |-> SubElement(p,
                      Node("TimerChange", "name" :> name.val, None,
                           <<Node(change_xml_tags[change.val[2]], <<>>, None, <<>>)>>))]

SoundActionToXML(r, p) ==
    LET c == "SoundAction"
        name == GetItem(c, r, "sound_name")
    IN IF name.err # "none" THEN [err |-> "ConsistencyError", parent |-> p]
       ELSE LET attrib == IF is_default(c, r, "change")
                          THEN "name" :> name.val
                          ELSE ("name" :> name.val) @@
                               ("action" :> GetItem(c, r, "change").val)
            IN [err |-> "none",
                parent |-> SubElement(p, Node("SoundRef", attrib, None, <<>>))]

EventTriggerActionToXML(r, p) ==
    LET c == "EventTriggerAction"
        name == GetItem(c, r, "trigger_name")
        enable == GetItem(c, r, "enable")
    IN IF name.err # "none" \/ enable.err # "none"
       THEN [err |-> "ConsistencyError", parent |-> p]
       ELSE [err |-> "none",
             parent |-> SubElement(p,
                 Node("Event", ("name" :> name.val) @@ ("enable" :> enable.val),
                      None, <<>>))]

MoveCaveActionToXML(r, p) ==
    LET c == "MoveCaveAction"
        attrib == IF is_default(c, r, "duration") THEN <<>>
                  ELSE "duration" :> PyStr(GetItem(c, r, "duration").val)
        relative == GetItem(c, r, "relative")
        placement == GetItem(c, r, "placement")
        root0 == Node("MoveCave", attrib, None, <<>>)
    IN IF relative.err # "none"
       THEN [err |-> "ConsistencyError", parent |-> SubElement(p, root0)]
       ELSE LET root1 == SubElement(root0,
                    Node(IF Truthy(relative.val) THEN "Relative" ELSE "Absolute",
                         <<>>, None, <<>>))
            IN IF placement.err # "none"
               THEN [err |-> "ConsistencyError", parent |-> SubElement(p, root1)]
               ELSE LET pl == PlacementToXML(placement.val, root1) IN
                    [err |-> pl.err, parent |-> SubElement(p, pl.node)]

CaveResetActionToXML(r, p) ==
    [err |-> "none", parent |-> SubElement(p, Node("Restart", <<>>, None, <<>>))]

\* <class>.toXML(parent_root)
toXML(c, r, p) ==
    CASE c = "ObjectAction" -> ObjectActionToXML(r, p)
      [] c = "GroupAction" -> GroupActionToXML(r, p)
      [] c = "TimelineAction" -> TimelineActionToXML(r, p)
      [] c = "SoundAction" -> SoundActionToXML(r, p)
      [] c = "EventTriggerAction" -> EventTriggerActionToXML(r, p)
      [] c = "MoveCaveAction" -> MoveCaveActionToXML(r, p)
      [] c = "CaveResetAction" -> CaveResetActionToXML(r, p)

----------------------------------------------------------------------------
(* actions.py: fromXML                                                     *)
(* A fromXML result is [err, names, kind, cls, rec]: the exception raised  *)
(* and the tag its message names, and what is returned: a record of class  *)
(* cls (kind "record") or None.                                            *)

Raised(e) ==
    [err |-> e, names |-> "", kind |-> "nothing", cls |-> "", rec |-> EmptyRec]

Returned(c, r) ==
    [err |-> "none", names |-> "", kind |-> "record", cls |-> c, rec |-> r]

ReturnedNone ==
    [err |-> "none", names |-> "", kind |-> "None", cls |-> "", rec |-> EmptyRec]

\* new_action[key] = value, unless an exception is already on its way
Assign(c, n, key, value) ==
    IF n.err # "none" THEN n ELSE SetItem(c, n.rec, key, value)

Raise(n, e) == IF n.err # "none" THEN n ELSE [n EXCEPT !.err = e]

\* new_action = action_class(); new_action[name_key] = root.attrib["name"]
NameStage(c, root, name_key) ==
    IF "name" \notin DOMAIN root.attrib
    THEN [err |-> "BadCaveXML", rec |-> EmptyRec]
    ELSE SetItem(c, Init__(c, <<>>, <<>>).rec, name_key, root.attrib["name"])

DurationStage(c, trans, n) ==
    IF n.err # "none" \/ "duration" \notin DOMAIN trans.attrib THEN n
    ELSE LET f == PyFloat(trans.attrib["duration"]) IN
         IF f.err # "none" THEN Raise(n, f.err)
         ELSE Assign(c, n, "duration", f.val)

VisibleFromXML(c, trans, n) ==
    LET i == Find(trans, "Visible") IN
    IF n.err # "none" \/ i = 0 THEN n
    ELSE Assign(c, n, "visible", text2bool(trans.children[i].text))

\* node = find("MoveRel"); new_action["move_relative"] = True when found
MoveRelStage(c, trans, n) ==
    IF n.err # "none" \/ Find(trans, "MoveRel") = 0 THEN n
    ELSE Assign(c, n, "move_relative", VBool(TRUE))

\* new_action["move_relative"] = new_action.get("move_relative", False)
MoveGetStage(c, node, n) ==
    IF n.err # "none" THEN n
    ELSE Assign(c, n, "move_relative",
                IF "move_relative" \in DOMAIN n.rec
                THEN n.rec["move_relative"] ELSE VBool(FALSE))

\* place_root = node.find("Placement"); new_action["placement"] = ...
PlacementStage(c, node, n) ==
    LET pi == Find(node, "Placement") IN
    IF n.err # "none" THEN n
    ELSE IF pi = 0 THEN Raise(n, "BadCaveXML")
    ELSE Assign(c, n, "placement", PlacementFromXML(node.children[pi]))

\* the MoveRel node, or else the Movement node, if there is one
MoveNodeStage(c, trans, n) ==
    LET rel == Find(trans, "MoveRel")
        i == IF rel # 0 THEN rel ELSE Find(trans, "Movement")
    IN IF n.err # "none" \/ i = 0 THEN n
       ELSE PlacementStage(c, trans.children[i],
                           MoveGetStage(c, trans.children[i], n))

MoveFromXML(c, trans, n) == MoveNodeStage(c, trans, MoveRelStage(c, trans, n))

White == VTup(<<VInt(255), VInt(255), VInt(255)>>)

\* the assignment is inside the try, so the InvalidArgument of a rejected
\* value is caught like that of text2tuple
ColorExcept(c, n, s) ==
    IF s.err = "InvalidArgument" THEN Assign(c, n, "color", White) ELSE s

ColorFromXML(c, trans, n) ==
    LET i == Find(trans, "Color") IN
    IF n.err # "none" \/ i = 0 THEN n
    ELSE LET t == text2tuple(trans.children[i].text) IN
         ColorExcept(c, n, IF t.err # "none" THEN [err |-> t.err, rec |-> n.rec]
                           ELSE Assign(c, n, "color", t.val))

\* float(node.text.strip()); the texts of the model carry no white space
ScaleFromXML(c, trans, n) ==
    LET i == Find(trans, "Scale") IN
    IF n.err # "none" \/ i = 0 THEN n
    ELSE LET text == trans.children[i].text IN
         IF Ty(text) # "str" THEN Raise(n, "AttributeError")
         ELSE LET f == PyFloat(text) IN
              CASE f.err = "none" -> Assign(c, n, "scale", f.val)
                [] f.err = "TypeError" -> Assign(c, n, "scale", VInt(1))
                [] OTHER -> Raise(n, f.err)

SoundFromXML(c, trans, n) ==
    LET i == Find(trans, "Sound") IN
    IF n.err # "none" \/ i = 0 THEN n
    ELSE LET text == trans.children[i].text IN
         IF Ty(text) # "str" THEN Raise(n, "AttributeError")
         ELSE Assign(c, n, "sound_change", text)

\* for key, value in new_action.link_xml_tags: the loop runs over the keys of
\* the dictionary and unpacks each key, a string, into key and value; a
\* string of any length but two raises ValueError
LinkFromXML(c, trans, n) ==
    IF n.err # "none" \/ DOMAIN link_xml_tags = {} THEN n
    ELSE IF \A k \in DOMAIN link_xml_tags : Len(k) # 2
         THEN Raise(n, "ValueError")
         ELSE n

\* ObjectAction.fromXML and GroupAction.fromXML after the name (and random)
TransitionFromXML(c, root, n) ==
    LET ti == Find(root, "Transition") IN
    IF n.err # "none" THEN n
    ELSE IF ti = 0 THEN Raise(n, "AttributeError")
    ELSE LET trans == root.children[ti] IN
         LinkFromXML(c, trans, SoundFromXML(c, trans, ScaleFromXML(c, trans,
             ColorFromXML(c, trans, MoveFromXML(c, trans,
                 VisibleFromXML(c, trans, DurationStage(c, trans, n)))))))

Finish(c, n) == IF n.err # "none" THEN Raised(n.err) ELSE Returned(c, n.rec)

ObjectActionFromXML(root) ==
    LET c == "ObjectAction" IN
    Finish(c, TransitionFromXML(c, root, NameStage(c, root, "object_name")))

\* new_action[key] = root.attrib[attr] if the node has the attribute
AttribStage(c, root, attr, key, n) ==
    IF n.err # "none" \/ attr \notin DOMAIN root.attrib THEN n
    ELSE Assign(c, n, key, root.attrib[attr])

GroupActionFromXML(root) ==
    LET c == "GroupAction" IN
    Finish(c, TransitionFromXML(c, root,
        AttribStage(c, root, "random", "choose_random",
                    NameStage(c, root, "group_name"))))

\* new_action = action_class: the class, not an instance; item assignment
\* on a class raises TypeError
TimelineActionFromXML(root) ==
    IF "name" \notin DOMAIN root.attrib THEN Raised("BadCaveXML")
    ELSE Raised("TypeError")

SoundActionFromXML(root) ==
    LET c == "SoundAction" IN
    Finish(c, AttribStage(c, root, "action", "change",
                          NameStage(c, root, "sound_name")))

\* the function ends without a return statement
EnableStage(c, root, n) ==
    IF n.err # "none" THEN n
    ELSE IF "enable" \notin DOMAIN root.attrib THEN Raise(n, "BadCaveXML")
    ELSE Assign(c, n, "enable", root.attrib["enable"])

FinishNone(n) == IF n.err # "none" THEN Raised(n.err) ELSE ReturnedNone

EventTriggerActionFromXML(root) ==
    LET c == "EventTriggerAction" IN
    FinishNone(EnableStage(c, root, NameStage(c, root, "trigger_name")))

RelativeStage(c, root, n) ==
    IF n.err # "none" THEN n
    ELSE IF Find(root, "Relative") # 0 THEN Assign(c, n, "relative", VBool(TRUE))
    ELSE IF Find(root, "Absolute") # 0 THEN Assign(c, n, "relative", VBool(FALSE))
    ELSE Raise(n, "BadCaveXML")

MoveCaveActionFromXML(root) ==
    LET c == "MoveCaveAction" IN
    Finish(c, PlacementStage(c, root, RelativeStage(c, root,
        AttribStage(c, root, "duration", "duration",
            [err |-> "none", rec |-> Init__(c, <<>>, <<>>).rec]))))

CaveResetActionFromXML(root) ==
    Returned("CaveResetAction", Init__("CaveResetAction", <<>>, <<>>).rec)

\* <class>.fromXML(xml_root)
fromXML(c, root) ==
    CASE c = "ObjectAction" -> ObjectActionFromXML(root)
      [] c = "GroupAction" -> GroupActionFromXML(root)
      [] c = "TimelineAction" -> TimelineActionFromXML(root)
      [] c = "SoundAction" -> SoundActionFromXML(root)
      [] c = "EventTriggerAction" -> EventTriggerActionFromXML(root)
      [] c = "MoveCaveAction" -> MoveCaveActionFromXML(root)
      [] c = "CaveResetAction" -> CaveResetActionFromXML(root)

\* CaveAction.fromXML: the factory
TagClass ==
    ("ObjectChange" :> "ObjectAction") @@ ("GroupRef" :> "GroupAction") @@
    ("TimerChange" :> "TimelineAction") @@ ("SoundRef" :> "SoundAction") @@
    ("Event" :> "EventTriggerAction") @@ ("MoveCave" :> "MoveCaveAction") @@
    ("Restart" :> "CaveResetAction")

CaveActionFromXML(root) ==
    IF root.tag \in DOMAIN TagClass THEN fromXML(TagClass[root.tag], root)
    ELSE [Raised("BadCaveXML") EXCEPT !.names = root.tag]

----------------------------------------------------------------------------
(* What callers pass in                                                    *)

BogusKey == "bogus"

Keys(c) == DOMAIN argument_validators[c]

NameKeys ==
    {"object_name", "group_name", "timeline_name", "sound_name", "trigger_name"}

BoolKeys == {"visible", "move_relative", "choose_random", "enable", "relative"}

AnyValues ==
    {None, VStr("Start"), VInt(MaxNum), VBool(TRUE), VPlc(1),
     VTup(<<VInt(1), VInt(MaxNum), VInt(0)>>)}

\* the values a caller tries for a key: legal ones and some that are not
InputValues(c, key) ==
    CASE key \in NameKeys -> {VStr("Table")}
      [] key \in BoolKeys -> {VBool(TRUE), VBool(FALSE)}
      [] key = "duration" -> {VInt(0), VInt(MaxNum), None, VStr("abc")}
      [] key = "scale" -> {VInt(MaxNum), None}
      [] key = "placement" -> {VPlc(1)}
      [] key = "color" -> {VTup(<<VInt(1), VInt(MaxNum), VInt(0)>>)}
      [] key = "sound_change" -> {VStr("Play Sound"), VStr("Bogus")}
      [] key = "link_change" -> {VStr(l) : l \in link_options}
      [] key = "change" /\ c = "TimelineAction" ->
            {VStr(l) : l \in timeline_options} \cup {VStr("Bogus")}
      [] key = "change" -> {VStr("Start"), VStr("Stop"), VStr("Bogus")}
      [] OTHER -> AnyValues

\* the pairs a caller hands to update() and to the constructor: a name, a
\* validated key with a value its validator accepts, one it answers false
\* to and one it raises on, and a key that is not in the schema
PoolValues(c, k) ==
    CASE k = "duration" -> {None, VStr("abc")}
      [] k = "change" -> {VStr("Bogus")}
      [] k = "relative" -> {VBool(TRUE)}
      [] OTHER -> {VStr("Table")}

PoolKeys(c) ==
    (Keys(c) \cap (NameKeys \cup {"duration", "change", "relative"}))
        \cup {BogusKey}

PairPool(c) == UNION {{<<k, v>> : v \in PoolValues(c, k)} : k \in PoolKeys(c)}

\* the lists of at most MaxPairs pairs, no pair twice
PairSeqs ==
    [c \in Classes |->
        {p \in UNION {[1..m -> PairPool(c)] : m \in 0..MaxPairs} :
            \A i, j \in 1..Len(p) : p[i] = p[j] => i = j}]

\* the arguments of a constructor call: positional pairs and keyword pairs
ConstructorArgs ==
    [c \in Classes |->
        {a \in PairSeqs[c] \X PairSeqs[c] :
            /\ Len(a[1]) + Len(a[2]) <= MaxPairs
            /\ \A i, j \in 1..Len(a[2]) : a[2][i][1] = a[2][j][1] => i = j}]

Root == Node("Root", <<>>, None, <<>>)

PlacementNode == Node("Placement", <<>>, VPlc(1), <<>>)

\* nodes as an XML file would give them: attribute values are strings
TestNodes ==
    {Node("ObjectChange", "name" :> VStr("Table"), None,
          <<Node("Transition", "duration" :> VStr(ToString(MaxNum)), None, <<>>)>>),
     Node("GroupRef", "name" :> VStr("Table"), None,
          <<Node("Transition", <<>>, None, <<>>)>>),
     Node("TimerChange", "name" :> VStr("Table"), None,
          <<Node("start", <<>>, None, <<>>)>>),
     Node("SoundRef", ("name" :> VStr("Table")) @@ ("action" :> VStr("Stop")),
          None, <<>>),
     Node("Event", ("name" :> VStr("Table")) @@ ("enable" :> VStr("true")),
          None, <<>>),
     Node("MoveCave", <<>>, None,
          <<Node("Relative", <<>>, None, <<>>), PlacementNode>>),
     Node("Restart", <<>>, None, <<>>),
     Node("Bogus", <<>>, None, <<>>)}

\* nodes that lack a required attribute or a required child
MalformedNodes ==
    {Node("ObjectChange", <<>>, None,
          <<Node("Transition", <<>>, None, <<>>)>>),
     Node("ObjectChange", "name" :> VStr("Table"), None, <<>>),
     Node("ObjectChange", "name" :> VStr("Table"), None,
          <<Node("Transition", <<>>, None,
                 <<Node("Movement", <<>>, None, <<>>)>>)>>),
     Node("GroupRef", "name" :> VStr("Table"), None, <<>>),
     Node("TimerChange", <<>>, None, <<Node("start", <<>>, None, <<>>)>>),
     Node("TimerChange", "name" :> VStr("Table"), None, <<>>),
     Node("SoundRef", <<>>, None, <<>>),
     Node("Event", "enable" :> VStr("true"), None, <<>>),
     Node("Event", "name" :> VStr("Table"), None, <<>>),
     Node("MoveCave", <<>>, None, <<PlacementNode>>),
     Node("MoveCave", <<>>, None, <<Node("Absolute", <<>>, None, <<>>)>>)}

\* an ObjectChange or GroupRef node with the children kids in its Transition
Transitioned(tag, kids) ==
    Node(tag, "name" :> VStr("Table"), None,
         <<Node("Transition", <<>>, None, kids)>>)

\* nodes with a Color that is not three integers, and with a Scale that is
\* empty or not a number
LenientNodes ==
    {Transitioned("ObjectChange",
                  <<Node("Color", <<>>, VStr("not,a,color"), <<>>)>>),
     Transitioned("ObjectChange", <<Node("Scale", <<>>, None, <<>>)>>),
     Transitioned("ObjectChange", <<Node("Scale", <<>>, VStr("abc"), <<>>)>>),
     Transitioned("GroupRef",
                  <<Node("Color", <<>>, VStr("not,a,color"), <<>>),
                    Node("Scale", <<>>, None, <<>>)>>)}

\* nodes with a LinkChange that holds none of the tags of link_xml_tags
UnknownLinkNodes ==
    {Transitioned("ObjectChange",
                  <<Node("LinkChange", <<>>, None,
                         <<Node("bogus", <<>>, None, <<>>)>>)>>),
     Transitioned("GroupRef", <<Node("LinkChange", <<>>, None, <<>>)>>)}

\* the nodes handed to fromXML
InputNodes ==
    TestNodes \cup MalformedNodes \cup LenientNodes \cup UnknownLinkNodes

\* the node toXML of the record appends to a new parent, when it returns
LastChild(x) ==
    IF x.err = "none" THEN {x.parent.children[Len(x.parent.children)]} ELSE {}

Serialized(c, r) == LastChild(toXML(c, r, Root))

----------------------------------------------------------------------------
(* The state machine: one record of class cls, and the calls made on it.   *)
(* call is the last call and its arguments; err, ret, parent and out are   *)
(* what it raised, what it returned, the parent_root it was given as it    *)
(* left it, and the record fromXML returned.                               *)

Call(op, key, value, pairs, kwargs, node) ==
    [op |-> op, key |-> key, value |-> value, pairs |-> pairs,
     kwargs |-> kwargs, node |-> node]

NoOut == Raised("none")

Init ==
    /\ cls \in Classes
    /\ alive = FALSE
    /\ rec = EmptyRec
    /\ ui_order = <<>>
    /\ call = Call("none", "", None, <<>>, <<>>, NoNode)
    /\ err = "none"
    /\ ret = None
    /\ parent = NoNode
    /\ out = NoOut

\* cls(*args, **kwargs)
Construct(args, kwargs) ==
    /\ \E r \in {Init__(cls, args, kwargs)} :
       /\ Cardinality(DOMAIN r.rec) <= MaxKeys
       /\ alive' = (r.err = "none")
       /\ rec' = r.rec
       /\ ui_order' = r.ui_order
       /\ err' = r.err
    /\ call' = Call("construct", "", None, args, kwargs, NoNode)
    /\ ret' = None
    /\ parent' = NoNode
    /\ out' = NoOut
    /\ UNCHANGED cls

\* record[key] = value
Set(key, value) ==
    /\ \E s \in {SetItem(cls, rec, key, value)} :
       /\ Cardinality(DOMAIN s.rec) <= MaxKeys
       /\ rec' = s.rec
       /\ err' = s.err
    /\ call' = Call("set", key, value, <<>>, <<>>, NoNode)
    /\ ret' = None
    /\ parent' = NoNode
    /\ out' = NoOut
    /\ UNCHANGED <<cls, alive, ui_order>>

\* record[key]
Get(key) ==
    /\ LET g == GetItem(cls, rec, key) IN
       /\ err' = g.err
       /\ ret' = g.val
    /\ rec' = Missing__(cls, rec, key)
    /\ call' = Call("get", key, None, <<>>, <<>>, NoNode)
    /\ parent' = NoNode
    /\ out' = NoOut
    /\ UNCHANGED <<cls, alive, ui_order>>

\* record.is_default(key)
IsDefault(key) ==
    /\ err' = "none"
    /\ ret' = VBool(is_default(cls, rec, key))
    /\ call' = Call("is_default", key, None, <<>>, <<>>, NoNode)
    /\ parent' = NoNode
    /\ out' = NoOut
    /\ UNCHANGED <<cls, alive, rec, ui_order>>

\* record.update(pairs)
UpdateCall(pairs) ==
    /\ \E u \in {Update(cls, rec, pairs)} :
       /\ Cardinality(DOMAIN u.rec) <= MaxKeys
       /\ rec' = u.rec
       /\ err' = u.err
    /\ call' = Call("update", "", None, pairs, <<>>, NoNode)
    /\ ret' = None
    /\ parent' = NoNode
    /\ out' = NoOut
    /\ UNCHANGED <<cls, alive, ui_order>>

\* record.toXML(parent_root), parent_root a new element
ToXML ==
    /\ alive
    /\ \E x \in {toXML(cls, rec, Root)} :
       /\ err' = x.err
       /\ parent' = x.parent
    /\ call' = Call("toXML", "", None, <<>>, <<>>, Root)
    /\ ret' = None
    /\ out' = NoOut
    /\ UNCHANGED <<cls, alive, rec, ui_order>>

\* cls.fromXML(node)
FromXML(node) ==
    /\ \E f \in {fromXML(cls, node)} :
       /\ err' = f.err
       /\ out' = f
    /\ call' = Call("fromXML", "", None, <<>>, <<>>, node)
    /\ ret' = None
    /\ parent' = NoNode
    /\ UNCHANGED <<cls, alive, rec, ui_order>>

\* CaveAction.fromXML(node)
Factory(node) ==
    /\ \E f \in {CaveActionFromXML(node)} :
       /\ err' = f.err
       /\ out' = f
    /\ call' = Call("factory", "", None, <<>>, <<>>, node)
    /\ ret' = None
    /\ parent' = NoNode
    /\ UNCHANGED <<cls, alive, rec, ui_order>>

\* the keys a caller reads: a name, the keys with a default, one that is
\* not in the schema
ReadKeys(c) ==
    (Keys(c) \cap NameKeys) \cup DOMAIN default_arguments[c]
        \cup (Keys(c) \cap {"visible", "enable", "relative"}) \cup {BogusKey}

\* the nodes a caller deserializes with the class c
NodesFor(c, r) ==
    {n \in InputNodes : n.tag \in DOMAIN TagClass /\ TagClass[n.tag] = c}
        \cup Serialized(c, r)

DoConstruct ==
    ~alive /\ \E a \in ConstructorArgs[cls] : Construct(a[1], a[2])

DoSet ==
    alive /\ \E key \in Keys(cls) \cup {BogusKey} :
        \E value \in InputValues(cls, key) : Set(key, value)

DoGet == alive /\ \E key \in ReadKeys(cls) : Get(key)

DoIsDefault == alive /\ \E key \in ReadKeys(cls) : IsDefault(key)

DoUpdate == alive /\ \E pairs \in PairSeqs[cls] : UpdateCall(pairs)

DoFromXML == alive /\ \E node \in NodesFor(cls, rec) : FromXML(node)

DoFactory == alive /\ \E node \in InputNodes \cup Serialized(cls, rec) : Factory(node)

\* the validators a caller builds
Validators ==
    {AlwaysValid, IsNumeric, IsNumericIterable(NoLength), IsNumericIterable(3),
     OptionListValidator({"Start", "Stop"}), OptionListValidator(link_options),
     CheckType("int"), CheckType("str")}

\* the values a caller hands to a validator
ValidatorValues ==
    AnyValues \cup
    {VStr("abc"), VStr(ToString(MaxNum)), VStr(""), VFlt(1),
     VTup(<<>>), VTup(<<VInt(1), VInt(MaxNum)>>),
     VTup(<<VStr("abc"), VInt(1), VInt(MaxNum)>>),
     VType("int"), VType("str"), VType("object")}

\* validator(value)
Validate(validator, value) ==
    /\ \E v \in {ValidatorCall(validator, value)} :
          /\ err' = IF v \in {"true", "false"} THEN "none" ELSE v
          /\ ret' = IF v \in {"true", "false"} THEN VBool(v = "true") ELSE None
    /\ call' = [op |-> "validate", validator |-> validator, value |-> value]
    /\ parent' = NoNode
    /\ out' = NoOut
    /\ UNCHANGED <<cls, alive, rec, ui_order>>

DoValidate ==
    \E validator \in Validators : \E value \in ValidatorValues :
        Validate(validator, value)

\* the validators on their own (validators.py)
ValidatorNext == DoValidate

ValidatorSpec == Init /\ [][ValidatorNext]_vars

\* the record as a validated mapping
Next == DoConstruct \/ DoSet \/ DoGet \/ DoIsDefault \/ DoUpdate

Spec == Init /\ [][Next]_vars

\* the record and its XML conversions
XmlNext == DoConstruct \/ DoSet \/ ToXML \/ DoFromXML \/ DoFactory

XmlSpec == Init /\ [][XmlNext]_vars

----------------------------------------------------------------------------
(* Properties of the record (features.py)                                  *)

\* validator(value) of a key of the schema
Verdict(c, key, value) == ValidatorCall(argument_validators[c][key], value)

\* C1: set(key, value) with a key that is not in the validator mapping of
\* the class fails with InvalidArgument for any value, and leaves the keys
\* and values of the record as they were.
C1_SchemaContainment ==
    [][(call'.op = "set" /\ call'.key \notin Keys(cls))
        => (err' = "InvalidArgument" /\ rec' = rec)]_vars

\* a record that holds something has just refused a key outside its schema
C1_Witness ==
    /\ call.op = "set" /\ call.key \notin Keys(cls)
    /\ err = "InvalidArgument"
    /\ DOMAIN rec # {}
    /\ call.key \notin DOMAIN rec

\* C2: for a key of the schema, set(key, value) succeeds, and get(key) then
\* returns the value, if and only if the validator of the key returns true
\* on the value; when it returns false the call fails with InvalidArgument
\* and nothing is stored.
C2_ValidatorConformance ==
    [][(call'.op = "set" /\ call'.key \in Keys(cls))
        => LET v == Verdict(cls, call'.key, call'.value) IN
           /\ (err' = "none") <=> (v = "true")
           /\ (v = "true") =>
                GetItem(cls, rec', call'.key) = [err |-> "none", val |-> call'.value]
           /\ (v = "false") => (err' = "InvalidArgument" /\ rec' = rec)]_vars

\* a record that holds something has just refused a value its validator
\* answers false to
C2_Witness ==
    /\ call.op = "set" /\ call.key \in Keys(cls)
    /\ Verdict(cls, call.key, call.value) = "false"
    /\ err = "InvalidArgument"
    /\ DOMAIN rec # {}
    /\ call.key \notin DOMAIN rec

\* C3: after construction and any sequence of set and update calls, failed
\* ones included, every key stored in the record is a key of the validator
\* mapping and its stored value is one the validator of the key accepts.
C3_StoredIsValid ==
    \A k \in DOMAIN rec :
        k \in Keys(cls) /\ Verdict(cls, k, rec[k]) = "true"

\* an update has failed after storing a pair
C3_Witness ==
    /\ call.op = "update" /\ err # "none"
    /\ \E i \in 1..Len(call.pairs) :
          /\ call.pairs[i][1] \in DOMAIN rec
          /\ rec[call.pairs[i][1]] = call.pairs[i][2]

\* C4: get(key) returns the stored value when the key is in the record, the
\* default of the schema when it is not and the defaults have it, and fails
\* with a missing-key condition (KeyError) when it is not and has no default.
C4_Get ==
    call.op = "get" =>
        IF call.key \in DOMAIN rec
        THEN err = "none" /\ ret = rec[call.key]
        ELSE IF call.key \in DOMAIN default_arguments[cls]
             THEN err = "none" /\ ret = default_arguments[cls][call.key]
             ELSE err = "KeyError"

\* a read of an absent key has returned the default
C4_Witness ==
    /\ call.op = "get" /\ call.key \notin DOMAIN rec
    /\ call.key \in DOMAIN default_arguments[cls]
    /\ err = "none" /\ ret = default_arguments[cls][call.key]
    /\ DOMAIN rec # {}

\* C5 as stated: once set(key, anything) has been called on a key that has
\* a default, is_default(key) is false.
C5_AnySetClearsDefault ==
    (call.op = "set" /\ call.key \in DOMAIN default_arguments[cls])
        => ~is_default(cls, rec, call.key)

\* C5, amended: in a freshly constructed record a key that is unset and has
\* a default reads as the default and is_default(key) is true; once a
\* set(key, value) has succeeded, is_default(key) is false, and it stays
\* false whatever is called later.
C5_SuccessfulSetClearsDefault ==
    [][/\ (call'.op = "construct" /\ err' = "none") =>
            \A k \in DOMAIN default_arguments[cls] \ DOMAIN rec' :
                /\ is_default(cls, rec', k)
                /\ GetItem(cls, rec', k).val = default_arguments[cls][k]
       /\ (call'.op = "set" /\ err' = "none") => ~is_default(cls, rec', call'.key)
       /\ \A k \in DOMAIN default_arguments[cls] :
            (alive /\ ~is_default(cls, rec, k)) => ~is_default(cls, rec', k)]_vars

\* a set of a key that has a default has succeeded
C5_Witness ==
    /\ call.op = "set" /\ err = "none"
    /\ call.key \in DOMAIN default_arguments[cls]
    /\ ~is_default(cls, rec, call.key)

\* a pair that set refuses: its key is not in the schema, or the validator
\* does not accept its value
Refused(c, pair) ==
    pair[1] \notin Keys(c) \/ Verdict(c, pair[1], pair[2]) # "true"

\* the record after plain assignments of the pairs, in order
RECURSIVE StoreAll(_, _)
StoreAll(r, pairs) ==
    IF pairs = <<>> THEN r
    ELSE StoreAll(Store(r, pairs[1][1], pairs[1][2]), Tail(pairs))

\* the pairs before the first one that set refuses
Accepted(c, pairs) ==
    IF \E i \in 1..Len(pairs) : Refused(c, pairs[i])
    THEN SubSeq(pairs, 1,
                (CHOOSE i \in 1..Len(pairs) :
                    /\ Refused(c, pairs[i])
                    /\ \A j \in 1..(i - 1) : ~Refused(c, pairs[j])) - 1)
    ELSE pairs

\* C6: update(pairs) applies set to each pair in order and stops at the
\* first pair that fails: the pairs before it are stored, that pair and the
\* pairs after it are not applied, and InvalidArgument reaches the caller.
C6_UpdateStopsWithInvalidArgument ==
    [][call'.op = "update" =>
        /\ rec' = StoreAll(rec, Accepted(cls, call'.pairs))
        /\ IF Accepted(cls, call'.pairs) = call'.pairs
           THEN err' = "none" ELSE err' = "InvalidArgument"]_vars

\* C7: constructing a record from positional and keyword pairs gives the
\* record that setting every positional pair and then every keyword pair on
\* an empty record gives; if a pair has a key outside the schema or a value
\* its validator rejects, construction fails with InvalidArgument and no
\* record is returned.
C7_ConstructIsSetInOrder ==
    call.op = "construct" =>
        LET pairs == call.pairs \o call.kwargs IN
        IF Accepted(cls, pairs) = pairs
        THEN err = "none" /\ alive /\ rec = StoreAll(EmptyRec, pairs)
        ELSE err = "InvalidArgument" /\ ~alive

----------------------------------------------------------------------------
(* Properties of the XML conversions (actions.py)                          *)

\* C8: the factory returns, for a node with one of the seven known tags, a
\* record of the matching variant, and for a node with any other tag it
\* fails with the schema-violation error (BadCaveXML), which names the tag.
C8_FactoryDispatch ==
    call.op = "factory" =>
        IF call.node.tag \in DOMAIN TagClass
        THEN err = "none" /\ out.kind = "record"
             /\ out.cls = TagClass[call.node.tag]
        ELSE err = "BadCaveXML" /\ out.names = call.node.tag

\* C9: for each variant and every record of it built from legal
\* assignments, deserializing the node serialize produced gives a record of
\* the variant in which every attribute that was set has its value.
C9_RoundTrip ==
    (call.op = "fromXML" /\ call.node \in Serialized(cls, rec)) =>
        /\ err = "none" /\ out.kind = "record" /\ out.cls = cls
        /\ \A k \in DOMAIN rec :
              k \in DOMAIN out.rec /\ PyEq(out.rec[k], rec[k])

\* the LinkChange element of a serialized ObjectChange or GroupRef node
LinkChangeOf(n) ==
    LET trans == n.children[Find(n, "Transition")] IN
    trans.children[Find(trans, "LinkChange")]

\* C10: for each of the four link_change literals set on an ObjectAction or
\* a GroupAction, the serialized LinkChange node has exactly one child, with
\* the tag of the literal, and deserializing the serialized node returns a
\* record whose link_change is the literal.
C10_LinkChangeBijection ==
    (cls \in {"ObjectAction", "GroupAction"} /\ "link_change" \in DOMAIN rec) =>
        /\ (call.op = "toXML" /\ err = "none") =>
              LET lc == LinkChangeOf(parent.children[1]) IN
              /\ Len(lc.children) = 1
              /\ lc.children[1].tag = link_xml_tags[rec["link_change"][2]]
        /\ (call.op = "fromXML" /\ call.node \in Serialized(cls, rec)) =>
              /\ err = "none" /\ out.kind = "record"
              /\ "link_change" \in DOMAIN out.rec
              /\ out.rec["link_change"] = rec["link_change"]

----------------------------------------------------------------------------
(* Properties of the error handling and of the conversions                 *)

\* the keys toXML reads with self[key] outside any "in self" test, and that
\* have no default
RequiredAttrs ==
    [c \in Classes |->
        CASE c = "ObjectAction" -> {"object_name"}
          [] c = "GroupAction" -> {"group_name"}
          [] c = "TimelineAction" -> {"timeline_name", "change"}
          [] c = "SoundAction" -> {"sound_name"}
          [] c = "EventTriggerAction" -> {"trigger_name", "enable"}
          [] c = "MoveCaveAction" -> {"relative", "placement"}
          [] OTHER -> {}]

\* C11: for every variant with required attributes, toXML of a record in
\* which a required attribute was never set fails with ConsistencyError and
\* with no other kind of error.
C11_MissingRequiredIsConsistencyError ==
    (call.op = "toXML" /\ RequiredAttrs[cls] \ DOMAIN rec # {})
        => err = "ConsistencyError"

\* the tags of the children of a node
ChildTags(n) == {n.children[i].tag : i \in 1..Len(n.children)}

\* a Movement or MoveRel child of the Transition of n has no Placement child
MoveLacksPlacement(n) ==
    \E i \in 1..Len(n.children) :
        /\ n.children[i].tag = "Transition"
        /\ \E j \in 1..Len(n.children[i].children) :
              /\ n.children[i].children[j].tag \in {"Movement", "MoveRel"}
              /\ "Placement" \notin ChildTags(n.children[i].children[j])

\* the node lacks an attribute or a child its variant requires
LacksRequired(n) ==
    CASE n.tag \in {"ObjectChange", "GroupRef"} ->
            \/ "name" \notin DOMAIN n.attrib
            \/ "Transition" \notin ChildTags(n)
            \/ MoveLacksPlacement(n)
      [] n.tag = "TimerChange" ->
            \/ "name" \notin DOMAIN n.attrib
            \/ ChildTags(n) \cap {change_xml_tags[k] : k \in DOMAIN change_xml_tags} = {}
      [] n.tag = "SoundRef" -> "name" \notin DOMAIN n.attrib
      [] n.tag = "Event" ->
            "name" \notin DOMAIN n.attrib \/ "enable" \notin DOMAIN n.attrib
      [] n.tag = "MoveCave" ->
            \/ ChildTags(n) \cap {"Relative", "Absolute"} = {}
            \/ "Placement" \notin ChildTags(n)
      [] OTHER -> FALSE

\* C12: fromXML of a node that lacks a required attribute or a required
\* child fails with BadCaveXML, and with no other kind of error.
C12_MissingStructureIsBadCaveXML ==
    (call.op \in {"fromXML", "factory"} /\ LacksRequired(call.node))
        => err = "BadCaveXML"

\* the element a successful toXML appended to its parent
Written == parent.children[Len(parent.children)]

\* C13: toXML writes the attribute of a key that has a default exactly when
\* the value of the key is not the default: action for change of a
\* SoundAction, random for choose_random of a GroupAction, duration for
\* duration of a MoveCaveAction; a default value assigned explicitly is
\* omitted too.
C13_DefaultValueOmitted ==
    (call.op = "toXML" /\ err = "none") =>
        /\ cls = "SoundAction" =>
              ("action" \in DOMAIN Written.attrib
                  <=> ~PyEq(GetItem(cls, rec, "change").val, VStr("Start")))
        /\ cls = "GroupAction" =>
              ("random" \in DOMAIN Written.attrib
                  <=> ~PyEq(GetItem(cls, rec, "choose_random").val, VBool(FALSE)))
        /\ cls = "MoveCaveAction" =>
              ("duration" \in DOMAIN Written.attrib
                  <=> ~PyEq(GetItem(cls, rec, "duration").val, VInt(0)))

\* the Transition element of an ObjectChange or GroupRef node that has one
TransitionOf(n) == n.children[Find(n, "Transition")]

\* the text of a Scale element is a number float() parses
ScaleParses(t) == Ty(t) = "str" /\ (IntText(t[2]) \/ FloatText(t[2]))

\* C14: fromXML of an ObjectChange or GroupRef node that has its name and
\* its Transition never fails because of Color or Scale: a Color text that
\* is not three integers gives color (255,255,255), and a Scale that is
\* missing, empty or not a number gives scale 1.
C14_LenientColorAndScale ==
    (/\ call.op \in {"fromXML", "factory"}
     /\ call.node.tag \in {"ObjectChange", "GroupRef"}
     /\ ~LacksRequired(call.node)) =>
        LET trans == TransitionOf(call.node)
            ci == Find(trans, "Color")
            si == Find(trans, "Scale")
        IN /\ err = "none" /\ out.kind = "record"
           /\ (ci # 0 /\ text2tuple(trans.children[ci].text).err # "none") =>
                 GetItem(out.cls, out.rec, "color").val = White
           /\ (si = 0 \/ ~ScaleParses(trans.children[si].text)) =>
                 PyEq(GetItem(out.cls, out.rec, "scale").val, VInt(1))

\* the string is one float() parses
NumericText(t) == IntText(t) \/ FloatText(t)

\* the Python type a class name stands for is the type of the value
IsInstance(value, t) == Ty(value) = t \/ (t = "int" /\ Ty(value) = "bool")

\* C15: a validator called on any value returns true or false and raises
\* nothing; IsNumeric returns false on a string that is not a number, and
\* CheckType returns false on a value of another type.
C15_ValidatorsNeverRaise ==
    call.op = "validate" =>
        /\ err = "none"
        /\ ret \in {VBool(TRUE), VBool(FALSE)}
        /\ (/\ call.validator.kind = "IsNumeric"
            /\ Ty(call.value) = "str" /\ ~NumericText(call.value[2]))
              => ret = VBool(FALSE)
        /\ (/\ call.validator.kind = "CheckType"
            /\ \A t \in call.validator.options : ~IsInstance(call.value, t))
              => ret = VBool(FALSE)

\* what IsNumericIterable is said to answer on a tuple or on a value that
\* is not iterable
NumericIterable(validator, value) ==
    /\ Ty(value) = "tuple"
    /\ \A i \in 1..Len(value[2]) : IsNumericCall(value[2][i]) = "true"
    /\ validator.required_length \in {NoLength, Len(value[2])}

\* C16: IsNumericIterable(required_length) returns true on a value if and
\* only if the value is iterable, IsNumeric accepts every element, and the
\* number of elements is required_length when one is given (stated here for
\* tuples and for values that are not iterable); so a 3-tuple with a
\* non-numeric element is refused.
C16_NumericIterable ==
    (/\ call.op = "validate" /\ call.validator.kind = "IsNumericIterable"
     /\ Ty(call.value) # "str") =>
        /\ err = "none"
        /\ (ret = VBool(TRUE)) <=> NumericIterable(call.validator, call.value)

\* the change literal whose tag is a child of the TimerChange node
ChangeOf(n) ==
    CHOOSE k \in DOMAIN change_xml_tags : change_xml_tags[k] \in ChildTags(n)

\* C17: every fromXML of a TimerChange node that has its name and its
\* change child returns a new TimelineAction record, which holds the
\* timeline_name and the change of that node, and the record the call was
\* made beside is left as it was.
C17_TimelineFromXMLReturnsOwnRecord ==
    (/\ call.op \in {"fromXML", "factory"}
     /\ call.node.tag = "TimerChange" /\ ~LacksRequired(call.node)) =>
        /\ err = "none" /\ out.kind = "record" /\ out.cls = "TimelineAction"
        /\ DOMAIN out.rec = {"timeline_name", "change"}
        /\ out.rec["timeline_name"] = call.node.attrib["name"]
        /\ out.rec["change"] = VStr(ChangeOf(call.node))

\* C18: when toXML fails, parent_root is as it was before the call: no
\* element of the action has been appended to it.
C18_FailedToXMLLeavesParent ==
    (call.op = "toXML" /\ err # "none") => parent = call.node

\* the Transition of the node has no LinkChange child, or one that holds
\* none of the four tags
NoKnownLink(n) ==
    LET trans == TransitionOf(n)
        li == Find(trans, "LinkChange")
    IN \/ li = 0
       \/ ChildTags(trans.children[li])
             \cap {link_xml_tags[k] : k \in DOMAIN link_xml_tags} = {}

\* C19: fromXML of an ObjectChange or GroupRef node whose Transition has no
\* LinkChange child, or a LinkChange child with none of the four known
\* tags, succeeds and returns a record in which link_change is unset
\* (checked on the nodes without Color and Scale, which C14 is about).
C19_NoLinkChangeLeavesUnset ==
    (/\ call.op \in {"fromXML", "factory"}
     /\ call.node.tag \in {"ObjectChange", "GroupRef"}
     /\ ~LacksRequired(call.node) /\ NoKnownLink(call.node)
     /\ ChildTags(TransitionOf(call.node)) \cap {"Color", "Scale"} = {}) =>
        /\ err = "none" /\ out.kind = "record"
        /\ "link_change" \notin DOMAIN out.rec

\* C20: a read does not change the record: after get(key) and after
\* is_default(key) every stored key and value is as before, and a key that
\* was absent and has a default is still absent and is_default(key) is
\* still true, whatever reads were made before.
C20_ReadsChangeNothing ==
    [][call'.op \in {"get", "is_default"} =>
        /\ rec' = rec
        /\ (call'.key \notin DOMAIN rec
                /\ call'.key \in DOMAIN default_arguments[cls]) =>
              /\ call'.key \notin DOMAIN rec'
              /\ is_default(cls, rec', call'.key)]_vars

\* is_default has answered true for a key of a record that holds something
\* else
C20_Witness ==
    /\ call.op = "is_default" /\ ret = VBool(TRUE)
    /\ call.key \in DOMAIN default_arguments[cls]
    /\ call.key \notin DOMAIN rec
    /\ DOMAIN rec # {}

====
